---- MODULE Spec2Model ----
(***************************************************************************)
(* The azure_monitor input plugin: AzureMonitor.Init, makeRequest,         *)
(* parseResponse and AzureMonitor.Gather of                                *)
(* plugins/inputs/azure_monitor/azure_monitor.go, and the Gather of the    *)
(* second copy of the plugin (unnamed/part_000), which polls the           *)
(* metricDefinitions endpoint and pushes one unbucketed field set.         *)
(*                                                                         *)
(* Library code is modelled by what it does on the inputs enumerated here: *)
(* io.ReadAll either reaches EOF or fails, json.Decoder.Decode accepts a   *)
(* JSON object (unknown keys ignored, absent keys left zero) and rejects   *)
(* other text, time.Parse(time.RFC3339, s) maps a well-formed string to    *)
(* its instant and rejects the rest.                                       *)
(***************************************************************************)
EXTENDS Integers, Sequences, FiniteSets, TLC

VARIABLES
    ResourceId,      \* AzureMonitor.ResourceId (toml resource_id)
    authorizer,      \* AzureMonitor.authorizer
    state,           \* "new" | "ready" (Init returned nil) | "failed" (Init returned an error)
    initErr,         \* the error Init returned
    credCalls,       \* calls of auth.NewAuthorizerFromEnvironment so far
    requested,       \* whether any HTTP request has been sent
    metrics,         \* provider side: the `value` array it reports for the resource
    resp,            \* the *http.Response of the last cycle (NoResp: none arrived)
    monitorResponse, \* what parseResponse returned in the last cycle
    err,             \* the error the last Gather returned
    acc,             \* the AddFields calls of the last cycle, in call order
    trace            \* the calls the last cycle made, in order

vars == <<ResourceId, authorizer, state, initErr, credCalls, requested, metrics,
          resp, monitorResponse, err, acc, trace>>

plugin == <<ResourceId, authorizer, state, initErr, credCalls>>
cycle == <<requested, resp, monitorResponse, err, acc, trace>>

----------------------------------------------------------------------------
(* Bounds and input sets *)

\* Most nodes (metrics + time series + data points) of the reported `value` array.
MaxNodes == 6

ResourceIds == {"", "/subscriptions/s1"}

\* Name.Value of the reported metrics.
MetricNames == {"Percentage CPU", "Transactions"}

\* timeStamp strings the provider may send.
TimeStamps == {"2024-01-01T00:00:00Z", "2024-01-01T00:01:00Z", "not-a-date"}

\* HTTP status codes the provider may answer with.
StatusCodes == {199, 200, 299, 300}

EmptyMap == [k \in {} |-> 0]

NoError == [type |-> "nil", message |-> <<>>]

NoResp == [StatusCode |-> 0, body |-> [kind |-> "none", value |-> <<>>], readFails |-> FALSE,
           url |-> <<>>]

\* AzureMonitorResponse{}
EmptyResponse == [Value |-> <<>>]

\* The key of an AddFields call that emits no timestamp bucket.
NoKey == "<none>"

----------------------------------------------------------------------------
(* Response bodies *)

\* {"value":[...]}
MetricsBody(v) == [kind |-> "metrics", value |-> v]
\* {"error":"not found"}
ErrorBody == [kind |-> "error-object", value |-> <<>>]
\* <html>...</html>
HtmlBody == [kind |-> "not-json", value |-> <<>>]
\* the bytes that arrived before the read of the body failed
TruncatedBody == [kind |-> "truncated", value |-> <<>>]

\* json.NewDecoder(...).Decode(&response)
Decode(body) ==
    CASE body.kind = "metrics" -> [err |-> NoError, response |-> [Value |-> body.value]]
      [] body.kind = "error-object" -> [err |-> NoError, response |-> EmptyResponse]
      [] OTHER -> [err |-> [type |-> "json.SyntaxError",
                            message |-> <<"invalid character '<' looking for beginning of value">>],
                   response |-> EmptyResponse]

\* time.Parse(time.RFC3339, ts): Unix seconds of the instant
ParseRFC3339(ts) ==
    CASE ts = "2024-01-01T00:00:00Z" -> [ok |-> TRUE, t |-> 1704067200]
      [] ts = "2024-01-01T00:01:00Z" -> [ok |-> TRUE, t |-> 1704067260]
      [] OTHER -> [ok |-> FALSE, t |-> 0]

----------------------------------------------------------------------------
(* parseResponse *)

\* IsProviderError with the upper comparison written >= 299
IsProviderErrorOffByOne(StatusCode) == StatusCode < 200 \/ StatusCode >= 299

IsProviderError(StatusCode) == StatusCode < 200 \/ StatusCode > 299

\* fmt.Sprintf("Azure monitor request returned error. Status %v:\n%v", resp.StatusCode, string(body))
ProviderMessage(StatusCode, body) ==
    <<"Azure monitor request returned error. Status ", StatusCode, ":\n", body>>

\* DeferredClose with Close written at the end of parseResponse instead of deferred
CloseAtEndOnly(calls) ==
    IF calls[Len(calls)] = "Decode:ok" THEN Append(calls, "Body.Close") ELSE calls

\* defer resp.Body.Close(): Close runs once, when parseResponse returns
DeferredClose(calls) == Append(calls, "Body.Close")

\* parseResponse(resp): the returned response, the returned error, and the calls
\* made on resp.Body and on the decoder, in order. The deferred Close runs last.
parseResponse(r) ==
    IF r.readFails
    THEN [response |-> EmptyResponse,
          err |-> [type |-> "io", message |-> <<"unexpected EOF">>],
          calls |-> DeferredClose(<<"ReadAll:err">>)]
    ELSE IF IsProviderError(r.StatusCode)
    THEN [response |-> EmptyResponse,
          err |-> [type |-> "AzureMonitorError",
                   message |-> ProviderMessage(r.StatusCode, r.body)],
          calls |-> DeferredClose(<<"ReadAll:EOF">>)]
    ELSE LET d == Decode(r.body) IN
         IF d.err # NoError
         THEN [response |-> EmptyResponse, err |-> d.err,
               calls |-> DeferredClose(<<"ReadAll:EOF", "Decode:err">>)]
         ELSE [response |-> d.response, err |-> NoError,
               calls |-> DeferredClose(<<"ReadAll:EOF", "Decode:ok">>)]

----------------------------------------------------------------------------
(* makeRequest *)

\* fmt.Sprintf("https://management.azure.com/%v/providers/microsoft.insights/<endpoint>?api-version=2018-01-01", a.ResourceId)
Url(endpoint) ==
    <<"https://management.azure.com/", ResourceId, "/providers/microsoft.insights/",
      endpoint, "?api-version=2018-01-01">>

\* What the provider may answer: the metrics under every status code, an error
\* object (not found, and under a success status), text that is no JSON, and a
\* body whose read fails part way.
Answers ==
    {[StatusCode |-> c, body |-> MetricsBody(metrics), readFails |-> FALSE] : c \in StatusCodes}
    \cup {[StatusCode |-> c, body |-> ErrorBody, readFails |-> FALSE] : c \in {200, 404}}
    \cup {[StatusCode |-> c, body |-> HtmlBody, readFails |-> FALSE] : c \in {200, 503}}
    \cup {[StatusCode |-> 200, body |-> TruncatedBody, readFails |-> TRUE]}

\* makeRequest(): it returns (nil, err), or a response arrives. http.NewRequest,
\* Prepare and client.Do all fail the same way, with a nil response and the error.
makeRequest(endpoint) ==
    {[err |-> [type |-> "net", message |-> <<"dial tcp: i/o timeout">>], resp |-> NoResp]}
    \cup {[err |-> NoError,
           resp |-> [StatusCode |-> a.StatusCode, body |-> a.body, readFails |-> a.readFails,
                     url |-> Url(endpoint)]] : a \in Answers}

----------------------------------------------------------------------------
(* Gather: bucketing by timestamp *)

\* m[k] = v on a Go map
Put(m, k, v) == [x \in (DOMAIN m) \cup {k} |-> IF x = k THEN v ELSE m[x]]

\* PutDatum with `if _, set := slot[name]; !set { slot[name] = ... }`: the first value stays
PutDatumKeepFirst(fbt, name, datum) ==
    LET slot == IF datum.TimeStamp \in DOMAIN fbt THEN fbt[datum.TimeStamp] ELSE EmptyMap
    IN IF name \in DOMAIN slot THEN fbt
       ELSE Put(fbt, datum.TimeStamp, Put(slot, name, datum.Average))

\* lines 154-159: look up or create the slot of datum.TimeStamp, set slot[name]
PutDatum(fbt, name, datum) ==
    LET slot == IF datum.TimeStamp \in DOMAIN fbt THEN fbt[datum.TimeStamp] ELSE EmptyMap
    IN Put(fbt, datum.TimeStamp, Put(slot, name, datum.Average))

RECURSIVE RangeData(_, _, _)
\* for _, datum := range ts.Data
RangeData(fbt, name, data) ==
    IF data = <<>> THEN fbt
    ELSE RangeData(PutDatum(fbt, name, Head(data)), name, Tail(data))

RECURSIVE RangeTimeSeries(_, _, _)
\* for _, ts := range value.TimeSeries
RangeTimeSeries(fbt, name, series) ==
    IF series = <<>> THEN fbt
    ELSE RangeTimeSeries(RangeData(fbt, name, Head(series).Data), name, Tail(series))

RECURSIVE RangeValue(_, _)
\* for _, value := range monitorResponse.Value
RangeValue(fbt, values) ==
    IF values = <<>> THEN fbt
    ELSE RangeValue(RangeTimeSeries(fbt, Head(values).Name.Value, Head(values).TimeSeries),
                    Tail(values))

\* NewFieldsByTimestamp with the map kept from the cycle before (never cleared)
KeptFieldsByTimestamp == [ts \in {acc[i].key : i \in DOMAIN acc} |->
                            (CHOOSE c \in {acc[i] : i \in DOMAIN acc} : c.key = ts).fields]

\* fieldsByTimestamp := make(map[string]map[string]interface{})
NewFieldsByTimestamp == EmptyMap

\* fieldsByTimestamp after the loops of lines 149-162
Bucketize(response) == RangeValue(NewFieldsByTimestamp, response.Value)

\* tags := make(map[string]string); tags["resource_id"] = a.ResourceId
Tags == Put(EmptyMap, "resource_id", ResourceId)

\* acc.AddFields("azure_monitor", fields, tags, timestamp); key is the loop variable ts
AddFieldsCall(key, fields, tags, timestamp) ==
    [measurement |-> "azure_monitor", fields |-> fields, tags |-> tags,
     t |-> <<timestamp>>, key |-> key]

RECURSIVE Orders(_)
\* The orders in which a Go range may visit the keys of a map.
Orders(S) ==
    IF S = {} THEN {<<>>}
    ELSE UNION {{<<k>> \o o : o \in Orders(S \ {k})} : k \in S}

RECURSIVE RangeFieldsByTimestampBreak(_, _, _)
\* RangeFieldsByTimestamp with `break` where the code has `continue`
RangeFieldsByTimestampBreak(fbt, order, tags) ==
    IF order = <<>> THEN <<>>
    ELSE LET ts == Head(order)
             p == ParseRFC3339(ts)
         IN IF ~p.ok THEN <<>>
            ELSE <<[measurement |-> "azure_monitor", fields |-> fbt[ts], tags |-> tags,
                    t |-> <<p.t>>, key |-> ts]>>
                 \o RangeFieldsByTimestampBreak(fbt, Tail(order), tags)

RECURSIVE RangeFieldsByTimestamp(_, _, _)
\* lines 164-171: the AddFields calls made when the map is visited in `order`
RangeFieldsByTimestamp(fbt, order, tags) ==
    IF order = <<>> THEN <<>>
    ELSE LET ts == Head(order)
             p == ParseRFC3339(ts)
             rest == RangeFieldsByTimestamp(fbt, Tail(order), tags)
         IN IF ~p.ok THEN rest
            ELSE <<AddFieldsCall(ts, fbt[ts], tags, p.t)>> \o rest

Range(s) == {s[i] : i \in DOMAIN s}

RECURSIVE Repeat(_, _)
Repeat(x, n) == IF n = 0 THEN <<>> ELSE <<x>> \o Repeat(x, n - 1)

----------------------------------------------------------------------------
(* Gather *)

\* Failed with the error of parseResponse left unchecked
FailedOnTransportOnly(e) == e.type = "net"

\* if err != nil { return err }
Failed(e) == e # NoError

\* Gather, lines 140-173, on a parsed response, the map visited in `order`
Emit(response, order) ==
    RangeFieldsByTimestamp(Bucketize(response), order, Tags)

\* The orders in which Gather may visit fieldsByTimestamp.
EmitOrders(response) == Orders(DOMAIN Bucketize(response))

\* One Gather cycle on the outcome `out` of makeRequest: what it leaves behind.
GatherResult(out, order) ==
    IF Failed(out.err)
    THEN [resp |-> NoResp, monitorResponse |-> EmptyResponse, err |-> out.err,
          acc |-> <<>>, trace |-> <<"makeRequest:err">>]
    ELSE LET p == parseResponse(out.resp) IN
         IF Failed(p.err)
         THEN [resp |-> out.resp, monitorResponse |-> p.response, err |-> p.err,
               acc |-> <<>>, trace |-> <<"makeRequest:ok">> \o p.calls]
         ELSE LET calls == Emit(p.response, order) IN
              [resp |-> out.resp, monitorResponse |-> p.response, err |-> NoError,
               acc |-> calls,
               trace |-> <<"makeRequest:ok">> \o p.calls \o Repeat("AddFields", Len(calls))]

\* AzureMonitor.Gather of azure_monitor.go. The agent polls a plugin only after its
\* Init returned nil.
Gather ==
    /\ state = "ready"
    /\ \E out \in makeRequest("metrics") :
         \E order \in (IF Failed(out.err) \/ Failed(parseResponse(out.resp).err)
                       THEN {<<>>}
                       ELSE EmitOrders(parseResponse(out.resp).response)) :
           LET g == GatherResult(out, order) IN
             /\ resp' = g.resp
             /\ monitorResponse' = g.monitorResponse
             /\ err' = g.err
             /\ acc' = g.acc
             /\ trace' = g.trace
    /\ requested' = TRUE
    /\ UNCHANGED <<plugin, metrics>>

----------------------------------------------------------------------------
(* Gather of unnamed/part_000 *)

RECURSIVE RangeValueWhole(_, _)
\* for _, value := range monitorResponse.Value { fields[name] = value.TimeSeries }
RangeValueWhole(fields, values) ==
    IF values = <<>> THEN fields
    ELSE RangeValueWhole(Put(fields, Head(values).Name.Value, Head(values).TimeSeries),
                         Tail(values))

\* acc.AddFields("azure_monitor", fields, tags): empty tags, no timestamp argument
AddFieldsCallWhole(fields) ==
    [measurement |-> "azure_monitor", fields |-> fields, tags |-> EmptyMap,
     t |-> <<>>, key |-> NoKey]

\* One cycle of the Gather of unnamed/part_000 on the outcome `out` of makeRequest.
GatherResultWhole(out) ==
    IF Failed(out.err)
    THEN [resp |-> NoResp, monitorResponse |-> EmptyResponse, err |-> out.err,
          acc |-> <<>>, trace |-> <<"makeRequest:err">>]
    ELSE LET p == parseResponse(out.resp) IN
         IF Failed(p.err)
         THEN [resp |-> out.resp, monitorResponse |-> p.response, err |-> p.err,
               acc |-> <<>>, trace |-> <<"makeRequest:ok">> \o p.calls]
         ELSE [resp |-> out.resp, monitorResponse |-> p.response, err |-> NoError,
               acc |-> <<AddFieldsCallWhole(RangeValueWhole(EmptyMap, p.response.Value))>>,
               trace |-> <<"makeRequest:ok">> \o p.calls \o <<"AddFields">>]

\* AzureMonitor.Gather of unnamed/part_000
GatherWhole ==
    /\ state = "ready"
    /\ \E out \in makeRequest("metricDefinitions") :
         LET g == GatherResultWhole(out) IN
           /\ resp' = g.resp
           /\ monitorResponse' = g.monitorResponse
           /\ err' = g.err
           /\ acc' = g.acc
           /\ trace' = g.trace
    /\ requested' = TRUE
    /\ UNCHANGED <<plugin, metrics>>

----------------------------------------------------------------------------
(* AzureMonitor.Init *)

\* ResourceIdMissing with the check left out
ResourceIdNeverMissing(id) == FALSE

\* a.ResourceId == ""
ResourceIdMissing(id) == id = ""

\* auth.NewAuthorizerFromEnvironment(): an authorizer, or an error
NewAuthorizerFromEnvironment ==
    {[authorizer |-> "authorizer", err |-> NoError],
     [authorizer |-> "nil",
      err |-> [type |-> "auth", message |-> <<"failed to get oauth token from client credentials">>]]}

\* AzureMonitor.Init
AzureMonitorInit ==
    /\ state = "new"
    /\ IF ResourceIdMissing(ResourceId)
       THEN /\ initErr' = [type |-> "errors", message |-> <<"resource_id must be configured">>]
            /\ state' = "failed"
            /\ UNCHANGED <<authorizer, credCalls>>
       ELSE \E r \in NewAuthorizerFromEnvironment :
              /\ credCalls' = credCalls + 1
              /\ IF Failed(r.err)
                 THEN /\ initErr' = r.err
                      /\ state' = "failed"
                      /\ UNCHANGED authorizer
                 ELSE /\ authorizer' = r.authorizer
                      /\ initErr' = NoError
                      /\ state' = "ready"
    /\ UNCHANGED <<ResourceId, metrics, cycle>>

----------------------------------------------------------------------------
(* The provider: the `value` array it will report, grown before the first poll. *)

RECURSIVE SumLen(_)
SumLen(ss) == IF ss = <<>> THEN 0 ELSE Len(Head(ss).Data) + SumLen(Tail(ss))

RECURSIVE Points(_)
\* data points in a `value` array
Points(values) == IF values = <<>> THEN 0 ELSE SumLen(Head(values).TimeSeries) + Points(Tail(values))

RECURSIVE SeriesCount(_)
SeriesCount(values) ==
    IF values = <<>> THEN 0 ELSE Len(Head(values).TimeSeries) + SeriesCount(Tail(values))

Nodes(values) == Len(values) + SeriesCount(values) + Points(values)

\* AzureMonitorResponseValue: a metric with no time series yet
ReportValue ==
    /\ ~requested
    /\ Nodes(metrics) < MaxNodes
    /\ \E n \in MetricNames :
         metrics' = Append(metrics, [Name |-> [Value |-> n], TimeSeries |-> <<>>])
    /\ UNCHANGED <<plugin, cycle>>

\* AzureMonitorResponseTimeSeries: an empty series, added to the last metric
ReportTimeSeries ==
    /\ ~requested
    /\ Nodes(metrics) < MaxNodes
    /\ metrics # <<>>
    /\ metrics' = [metrics EXCEPT ![Len(metrics)].TimeSeries = Append(@, [Data |-> <<>>])]
    /\ UNCHANGED <<plugin, cycle>>

\* AzureMonitorResponseTimeSeriesDatum: a data point, added to the last series.
\* Gather copies Average and never inspects it: each point carries a value of its own.
ReportDatum ==
    /\ ~requested
    /\ Nodes(metrics) < MaxNodes
    /\ metrics # <<>>
    /\ metrics[Len(metrics)].TimeSeries # <<>>
    /\ \E ts \in TimeStamps :
         LET m == Len(metrics)
             k == Len(metrics[m].TimeSeries)
         IN metrics' = [metrics EXCEPT ![m].TimeSeries[k].Data =
                            Append(@, [Average |-> Points(metrics) + 1, TimeStamp |-> ts])]
    /\ UNCHANGED <<plugin, cycle>>

----------------------------------------------------------------------------
(* Specifications *)

Init ==
    /\ ResourceId \in ResourceIds
    /\ authorizer = "nil"
    /\ state = "new"
    /\ initErr = NoError
    /\ credCalls = 0
    /\ requested = FALSE
    /\ metrics = <<>>
    /\ resp = NoResp
    /\ monitorResponse = EmptyResponse
    /\ err = NoError
    /\ acc = <<>>
    /\ trace = <<>>

Provider == ReportValue \/ ReportTimeSeries \/ ReportDatum

\* The plugin of plugins/inputs/azure_monitor/azure_monitor.go
Next == AzureMonitorInit \/ Provider \/ Gather

Spec == Init /\ [][Next]_vars

\* The plugin of unnamed/part_000
NextWhole == AzureMonitorInit \/ Provider \/ GatherWhole

SpecWhole == Init /\ [][NextWhole]_vars

----------------------------------------------------------------------------
(* Vocabulary of the properties: the response read declaratively, by position. *)

\* The positions <<metric, series, datum>> of the data points of a `value` array.
Positions(v) ==
    UNION {UNION {{<<i, j, k>> : k \in 1..Len(v[i].TimeSeries[j].Data)} :
                    j \in 1..Len(v[i].TimeSeries)} : i \in 1..Len(v)}

DatumAt(v, p) == v[p[1]].TimeSeries[p[2]].Data[p[3]]

NameAt(v, p) == v[p[1]].Name.Value

\* p comes after q in traversal order: metrics, then time series, then data points
After(p, q) ==
    \/ p[1] > q[1]
    \/ p[1] = q[1] /\ p[2] > q[2]
    \/ p[1] = q[1] /\ p[2] = q[2] /\ p[3] > q[3]

TimestampsOf(v) == {DatumAt(v, p).TimeStamp : p \in Positions(v)}

ValidTimestampsOf(v) == {ts \in TimestampsOf(v) : ParseRFC3339(ts).ok}

MalformedTimestampsOf(v) == {ts \in TimestampsOf(v) : ~ParseRFC3339(ts).ok}

\* The metric keys that have a datum with timestamp ts.
KeysAt(v, ts) == {NameAt(v, p) : p \in {q \in Positions(v) : DatumAt(v, q).TimeStamp = ts}}

\* The Average of the last datum of metric key n with timestamp ts.
LastAverage(v, n, ts) ==
    LET P == {p \in Positions(v) : NameAt(v, p) = n /\ DatumAt(v, p).TimeStamp = ts}
        l == CHOOSE p \in P : \A q \in P : q = p \/ After(p, q)
    IN DatumAt(v, l).Average

Count(x, s) == Cardinality({i \in DOMAIN s : s[i] = x})

\* A cycle has run and its response was read and decoded.
Parsed == requested /\ Count("Decode:ok", trace) = 1

\* A cycle has run and a response arrived.
Answered == requested /\ resp # NoResp

InSuccessRange(c) == c >= 200 /\ c <= 299

----------------------------------------------------------------------------
(* Properties *)

Keys == {acc[i].key : i \in DOMAIN acc}

\* C1: in a cycle whose response parsed, Gather calls AddFields exactly once per
\* distinct timestamp string of the response that parses as RFC3339: as many
\* calls as such strings, one for each, and none for a string twice.
C1_OneAddFieldsPerValidTimestamp ==
    Parsed =>
        /\ Len(acc) = Cardinality(ValidTimestampsOf(monitorResponse.Value))
        /\ Keys = ValidTimestampsOf(monitorResponse.Value)
        /\ \A i \in DOMAIN acc : \A j \in DOMAIN acc : acc[i].key = acc[j].key => i = j

\* C2: the FieldSet emitted for timestamp string t has exactly the metric keys
\* that have a datum with timestamp t, and each key's value is the Average of the
\* last such datum in traversal order (a later series wins over an earlier one).
C2_FieldsAreLastAveragePerKey ==
    \A i \in DOMAIN acc :
        acc[i].key # NoKey =>
            /\ DOMAIN acc[i].fields = KeysAt(monitorResponse.Value, acc[i].key)
            /\ \A n \in DOMAIN acc[i].fields :
                 acc[i].fields[n] = LastAverage(monitorResponse.Value, n, acc[i].key)

\* C2 witness: one metric reported the same valid timestamp in two of its series,
\* and the cycle emitted the FieldSet of that timestamp.
C2_Witness_SameTimestampInTwoSeries ==
    /\ Parsed
    /\ \E p \in Positions(monitorResponse.Value) : \E q \in Positions(monitorResponse.Value) :
         /\ p[1] = q[1] /\ p[2] < q[2]
         /\ DatumAt(monitorResponse.Value, p).TimeStamp = DatumAt(monitorResponse.Value, q).TimeStamp
         /\ DatumAt(monitorResponse.Value, p).TimeStamp \in Keys

\* C3: a cycle in which makeRequest or parseResponse failed returns that error
\* and calls AddFields not once; a cycle that returns an error has emitted
\* nothing; every AddFields call comes after the decoder succeeded.
C3_NoEmissionInFailedCycle ==
    requested =>
        /\ trace[1] = "makeRequest:err" => err.type = "net" /\ acc = <<>>
        /\ (Answered /\ resp.readFails) => err.type = "io" /\ acc = <<>>
        /\ (Answered /\ ~resp.readFails /\ ~InSuccessRange(resp.StatusCode))
              => err.type = "AzureMonitorError" /\ acc = <<>>
        /\ (Answered /\ ~resp.readFails /\ InSuccessRange(resp.StatusCode)
              /\ resp.body.kind = "not-json")
              => err.type = "json.SyntaxError" /\ acc = <<>>
        /\ err # NoError => acc = <<>> /\ Count("AddFields", trace) = 0
        /\ Count("AddFields", trace) = Len(acc)
        /\ \A i \in DOMAIN trace :
             trace[i] = "AddFields" => \E j \in 1..(i - 1) : trace[j] = "Decode:ok"

\* C3 witness: a decode failure ended the cycle.
C3_Witness_DecodeFailure ==
    /\ Answered
    /\ err.type = "json.SyntaxError"
    /\ acc = <<>>

\* C4: a response whose body was read and whose status is outside [200, 299]
\* yields an AzureMonitorError carrying the status code and the body verbatim,
\* an empty response, and no run of the decoder; a status inside [200, 299],
\* 200 and 299 included, yields no AzureMonitorError and the body is decoded.
C4_StatusOutside2xxIsProviderError ==
    (Answered /\ ~resp.readFails) =>
        IF InSuccessRange(resp.StatusCode)
        THEN /\ err.type # "AzureMonitorError"
             /\ Count("Decode:ok", trace) + Count("Decode:err", trace) = 1
        ELSE /\ err.type = "AzureMonitorError"
             /\ err.message[2] = resp.StatusCode
             /\ err.message[4] = resp.body
             /\ monitorResponse = EmptyResponse
             /\ Count("Decode:ok", trace) + Count("Decode:err", trace) = 0

\* C4 witness: status 404 with the body {"error":"not found"}.
C4_Witness_NotFound ==
    /\ Answered
    /\ resp.StatusCode = 404
    /\ resp.body = ErrorBody
    /\ err.type = "AzureMonitorError"

\* C5: in a cycle whose response parsed, Gather drops exactly the FieldSets keyed
\* by malformed timestamp strings, emits the FieldSet of every other timestamp
\* string, and returns no error, however many strings are malformed.
C5_MalformedTimestampsDropped ==
    Parsed =>
        /\ Keys \cap MalformedTimestampsOf(monitorResponse.Value) = {}
        /\ TimestampsOf(monitorResponse.Value) \ MalformedTimestampsOf(monitorResponse.Value)
              \subseteq Keys
        /\ err = NoError

\* C5 witness: a response with a malformed and a well-formed timestamp, the
\* well-formed one emitted.
C5_Witness_MixedTimestamps ==
    /\ Parsed
    /\ MalformedTimestampsOf(monitorResponse.Value) # {}
    /\ ValidTimestampsOf(monitorResponse.Value) # {}
    /\ acc # <<>>
    /\ err = NoError

\* C6: a cycle whose parsed response has no valid FieldSet (no metric, no time
\* series, no data point, or malformed timestamps only) calls AddFields not
\* once and returns no error.
C6_NothingValidNothingEmitted ==
    (Parsed /\ ValidTimestampsOf(monitorResponse.Value) = {}) =>
        acc = <<>> /\ err = NoError

\* C7: every AddFields call names the measurement "azure_monitor", carries the
\* tag resource_id = ResourceId, and carries the timestamp that its FieldSet's
\* key parses to: every field value is the Average of a datum of that instant.
C7_MeasurementTagAndTimestamp ==
    \A i \in DOMAIN acc :
        /\ acc[i].measurement = "azure_monitor"
        /\ "resource_id" \in DOMAIN acc[i].tags
        /\ acc[i].tags["resource_id"] = ResourceId
        /\ ParseRFC3339(acc[i].key).ok
        /\ acc[i].t = <<ParseRFC3339(acc[i].key).t>>
        /\ \A n \in DOMAIN acc[i].fields :
             \E p \in Positions(monitorResponse.Value) :
                /\ DatumAt(monitorResponse.Value, p).Average = acc[i].fields[n]
                /\ ParseRFC3339(DatumAt(monitorResponse.Value, p).TimeStamp).ok
                /\ <<ParseRFC3339(DatumAt(monitorResponse.Value, p).TimeStamp).t>> = acc[i].t

\* C8 as stated: on every path through parseResponse the body is fully
\* consumed and closed exactly once.
C8_BodyConsumedAndClosedOnce ==
    Answered =>
        /\ Count("ReadAll:EOF", trace) = 1
        /\ Count("Body.Close", trace) = 1

\* C8 amended: on every path through parseResponse the body is read once, to
\* its end unless the read fails, and closed exactly once, after the read and
\* after any decoding, as the last call of parseResponse.
C8_BodyReadAndClosedOnce ==
    Answered =>
        /\ Count("Body.Close", trace) = 1
        /\ Count("ReadAll:EOF", trace) + Count("ReadAll:err", trace) = 1
        /\ Count("ReadAll:EOF", trace) = (IF resp.readFails THEN 0 ELSE 1)
        /\ \A i \in DOMAIN trace :
             trace[i] \in {"ReadAll:EOF", "ReadAll:err", "Decode:ok", "Decode:err"}
                => \E j \in (i + 1)..Len(trace) : trace[j] = "Body.Close"

\* C8 witness: the read of the body failed, and the body was closed.
C8_Witness_ReadFailure ==
    /\ Answered
    /\ resp.readFails
    /\ err.type = "io"
    /\ Count("Body.Close", trace) = 1

\* C9: Init with an empty resource_id returns the configuration error without
\* calling the credential provider or the network and leaves the authorizer
\* unset; with a resource_id it calls the provider once, fails exactly with the
\* provider's error, and otherwise stores the authorizer.
C9_InitChecksResourceIdFirst ==
    state # "new" =>
        IF ResourceId = ""
        THEN /\ state = "failed"
             /\ initErr = [type |-> "errors", message |-> <<"resource_id must be configured">>]
             /\ credCalls = 0
             /\ ~requested
             /\ authorizer = "nil"
        ELSE /\ credCalls = 1
             /\ \/ state = "failed" /\ initErr.type = "auth" /\ authorizer = "nil" /\ ~requested
                \/ state = "ready" /\ initErr = NoError /\ authorizer = "authorizer"

\* C9 witness: Init has failed on an empty resource_id.
C9_Witness_EmptyResourceId ==
    /\ ResourceId = ""
    /\ state = "failed"

\* What a cycle emits, as a function of the resource id and the response alone.
EmissionsOf(rid, r) ==
    IF r = NoResp \/ r.readFails \/ ~InSuccessRange(r.StatusCode) \/ r.body.kind = "not-json"
    THEN {}
    ELSE LET v == IF r.body.kind = "metrics" THEN r.body.value ELSE <<>>
         IN {[measurement |-> "azure_monitor",
              fields |-> [n \in KeysAt(v, ts) |-> LastAverage(v, n, ts)],
              tags |-> [k \in {"resource_id"} |-> rid],
              t |-> <<ParseRFC3339(ts).t>>,
              key |-> ts] : ts \in ValidTimestampsOf(v)}

\* C10: what a cycle emits is a function of the resource id and of that cycle's
\* own response, whatever the cycles before it did: a cycle that receives the
\* response of the cycle before it emits the same set, and Gather changes
\* neither ResourceId nor the authorizer.
C10_CyclesAreIndependent ==
    /\ [](requested => Range(acc) = EmissionsOf(ResourceId, resp))
    /\ [][state = "ready" =>
            /\ ResourceId' = ResourceId
            /\ authorizer' = authorizer
            /\ (requested /\ resp' = resp) => (Range(acc') = Range(acc) /\ err' = err)]_vars

\* C10 witness: a cycle whose response parsed has emitted FieldSets.
C10_Witness_EmissionAfterCycle ==
    /\ Parsed
    /\ acc # <<>>

====
